---- MODULE Spec2Model ----
(***************************************************************************)
(* Model of SimpleAIAgent (src/dummy/first_aiagent.py): the single-turn    *)
(* tool-dispatch loop `run`, the reasoning client                          *)
(* `_get_llm_response_with_tools` and the three tools.                     *)
(*                                                                         *)
(* Python values are tagged records (str, num, dict, list, none).  A str   *)
(* is a sequence of text pieces (the pieces an f-string concatenates), so  *)
(* "contains" is membership of a piece and the empty string is <<>>.       *)
(* JSON text is a str whose pieces are JSON tokens; json.dumps and         *)
(* json.loads are modelled as the printer and the parser between the two.  *)
(***************************************************************************)
EXTENDS Integers, Sequences, FiniteSets, TLC

\* ------------------------------------------------------------ bounds
\* number of turns (calls of run) on one agent
NumTurns == 2
\* longest organic_results list the search provider returns
MaxResults == 6

\* ------------------------------------------------------------ Python values
Str(p) == [t |-> "str", s |-> p, d |-> <<>>]
Num(l) == [t |-> "num", s |-> <<l>>, d |-> <<>>]
Dict(pairs) == [t |-> "dict", s |-> <<>>, d |-> pairs]
List(items) == [t |-> "list", s |-> <<>>, d |-> items]
None == [t |-> "none", s |-> <<>>, d |-> <<>>]

\* the number literals the environment uses
NumberLiterals == {"42", "48.85", "2.35", "18.5", "12.3"}

\* a Python call either returns a value or raises
Ret(v) == [exc |-> "none", v |-> v]
Raise(e) == [exc |-> e, v |-> None]

\* index of key k in a dict's pair list, 0 when absent
KeyIndex(dv, k) ==
    IF \E i \in 1..Len(dv.d) : dv.d[i][1] = k
    THEN CHOOSE i \in 1..Len(dv.d) : dv.d[i][1] = k
    ELSE 0

\* `k in dv`: membership needs a container with string keys
HasKey(dv, k) == dv.t = "dict" /\ KeyIndex(dv, k) # 0

\* dv[k]: KeyError when absent, TypeError when dv is no dict
Index(dv, k) ==
    IF dv.t # "dict" THEN Raise("TypeError")
    ELSE IF KeyIndex(dv, k) = 0 THEN Raise("KeyError")
    ELSE Ret(dv.d[KeyIndex(dv, k)][2])

\* dv.get(k, default): AttributeError when dv is no dict
Get(dv, k, default) ==
    IF dv.t # "dict" THEN Raise("AttributeError")
    ELSE IF KeyIndex(dv, k) = 0 THEN Ret(default)
    ELSE Ret(dv.d[KeyIndex(dv, k)][2])

\* the pieces of f"{v}"
Fmt(v) ==
    CASE v.t = "str" -> v.s
      [] v.t = "num" -> v.s
      [] v.t = "none" -> <<"None">>
      [] OTHER -> <<"<object>">>

\* ------------------------------------------------------------ json
RECURSIVE DumpTokens(_)
RECURSIVE DumpMembers(_, _)
RECURSIVE DumpItems(_, _)

DumpMembers(pairs, i) ==
    IF i > Len(pairs) THEN <<>>
    ELSE (IF i > 1 THEN <<",">> ELSE <<>>)
         \o <<"\"", pairs[i][1], "\"", ":">> \o DumpTokens(pairs[i][2])
         \o DumpMembers(pairs, i + 1)

DumpItems(items, i) ==
    IF i > Len(items) THEN <<>>
    ELSE (IF i > 1 THEN <<",">> ELSE <<>>)
         \o DumpTokens(items[i]) \o DumpItems(items, i + 1)

DumpTokens(v) ==
    CASE v.t = "str" -> <<"\"">> \o v.s \o <<"\"">>
      [] v.t = "num" -> v.s
      [] v.t = "none" -> <<"null">>
      [] v.t = "dict" -> <<"{">> \o DumpMembers(v.d, 1) \o <<"}">>
      [] v.t = "list" -> <<"[">> \o DumpItems(v.d, 1) \o <<"]">>

\* json.dumps(v): the JSON text of v, a str
JsonDumps(v) == Str(DumpTokens(v))

ParseFail == [ok |-> FALSE, v |-> None, n |-> 0]
ParseOk(v, n) == [ok |-> TRUE, v |-> v, n |-> n]

RECURSIVE ParseValue(_, _)
RECURSIVE ParseMembers(_, _, _)
RECURSIVE ParseItems(_, _, _)

\* the value that starts at token i of s, and the index after it
ParseValue(s, i) ==
    IF i > Len(s) THEN ParseFail
    ELSE CASE s[i] = "\"" ->
                IF \E j \in (i + 1)..Len(s) : s[j] = "\""
                THEN LET j == CHOOSE j \in (i + 1)..Len(s) :
                                 /\ s[j] = "\""
                                 /\ \A k \in (i + 1)..(j - 1) : s[k] # "\""
                     IN ParseOk(Str(SubSeq(s, i + 1, j - 1)), j + 1)
                ELSE ParseFail
           [] s[i] = "{" ->
                IF i + 1 <= Len(s) /\ s[i + 1] = "}"
                THEN ParseOk(Dict(<<>>), i + 2)
                ELSE ParseMembers(s, i + 1, <<>>)
           [] s[i] = "[" ->
                IF i + 1 <= Len(s) /\ s[i + 1] = "]"
                THEN ParseOk(List(<<>>), i + 2)
                ELSE ParseItems(s, i + 1, <<>>)
           [] s[i] = "null" -> ParseOk(None, i + 1)
           [] s[i] \in NumberLiterals -> ParseOk(Num(s[i]), i + 1)
           [] OTHER -> ParseFail

\* the members of an object from token i on, after those in acc
ParseMembers(s, i, acc) ==
    LET AfterValue(key, x) ==
            IF ~x.ok \/ x.n > Len(s) THEN ParseFail
            ELSE IF s[x.n] = "}" THEN ParseOk(Dict(Append(acc, <<key, x.v>>)), x.n + 1)
            ELSE IF s[x.n] = "," THEN ParseMembers(s, x.n + 1, Append(acc, <<key, x.v>>))
            ELSE ParseFail
        AfterKey(k) ==
            IF ~k.ok \/ k.v.t # "str" \/ Len(k.v.s) # 1 THEN ParseFail
            ELSE IF k.n > Len(s) \/ s[k.n] # ":" THEN ParseFail
            ELSE AfterValue(k.v.s[1], ParseValue(s, k.n + 1))
    IN AfterKey(ParseValue(s, i))

\* the items of an array from token i on, after those in acc
ParseItems(s, i, acc) ==
    LET AfterValue(x) ==
            IF ~x.ok \/ x.n > Len(s) THEN ParseFail
            ELSE IF s[x.n] = "]" THEN ParseOk(List(Append(acc, x.v)), x.n + 1)
            ELSE IF s[x.n] = "," THEN ParseItems(s, x.n + 1, Append(acc, x.v))
            ELSE ParseFail
    IN AfterValue(ParseValue(s, i))

\* json.loads(text): JSONDecodeError unless the whole text is one JSON value
JsonLoads(text) ==
    LET Whole(p) ==
            IF p.ok /\ p.n = Len(text.s) + 1 THEN Ret(p.v) ELSE Raise("JSONDecodeError")
    IN IF text.t # "str" THEN Raise("TypeError") ELSE Whole(ParseValue(text.s, 1))

\* r, or what F makes of r's value when r raised nothing
Then(r, F(_)) == IF r.exc # "none" THEN r ELSE F(r.v)

\* bool(v): None, "", {} and [] are falsy
Truthy(v) ==
    CASE v.t = "none" -> FALSE
      [] v.t = "str" -> v.s # <<>>
      [] v.t = "num" -> TRUE
      [] OTHER -> v.d # <<>>

\* lv[0]: IndexError on an empty list, KeyError/TypeError on other values
First(lv) ==
    IF lv.t = "list" THEN (IF lv.d = <<>> THEN Raise("IndexError") ELSE Ret(lv.d[1]))
    ELSE IF lv.t = "dict" THEN Raise("KeyError")
    ELSE IF lv.t = "str" /\ lv.s # <<>> THEN Ret(Str(<<lv.s[1]>>))
    ELSE Raise("TypeError")

\* a coroutine that stopped at an await on a network reply
Await == [exc |-> "await", v |-> None]

\* ------------------------------------------------------------ configuration
PLACEHOLDER_OPENCAGE == "YOUR_OPENCAGE_API_KEY"
PLACEHOLDER_SERPAPI == "YOUR_SERPAPI_KEY"
\* os.getenv(name, placeholder): unset gives the placeholder, set gives "" or a key
OpenCageKeys == {"", PLACEHOLDER_OPENCAGE, "oc-key"}
SerpApiKeys == {"", PLACEHOLDER_SERPAPI, "serp-key"}

\* self.tools: the registry's keys
ToolNames == {"get_current_weather", "get_search_results", "get_location_coords"}

\* the parameter of each tool function (besides self)
ToolParam(name) ==
    CASE name = "get_current_weather" -> "location"
      [] name = "get_search_results" -> "query"
      [] name = "get_location_coords" -> "location_name"

\* ------------------------------------------------------------ geocoding tool
GeoKeyError ==
    Str(<<"Error: OpenCage API key is not set. Please get a free key from https://opencagedata.com/pricing and set the ",
          "OPENCAGE_API_KEY",
          " environment variable or replace 'YOUR_OPENCAGE_API_KEY' in the code.">>)

ApiCallError(e) == Str(<<"An error occurred during the API call: ", e>>)

\* the key guard of _get_location_coords
GeoKeyMissingMut(key) == key = PLACEHOLDER_OPENCAGE
GeoKeyMissing(key) == key = "" \/ key = PLACEHOLDER_OPENCAGE

\* _get_location_coords up to its request: the key check, then quote()
GeoEnter(key, location_name) ==
    IF GeoKeyMissing(key) THEN Ret(GeoKeyError)
    ELSE IF location_name.t # "str" THEN Raise("TypeError")
    ELSE Await

NoCoordinates(location_name) ==
    Str(<<"Error: No coordinates found for location '">> \o Fmt(location_name) \o <<"'.">>)

\* the body of the try block of _get_location_coords for a reply with a status
GeoBody(location_name, reply) ==
    IF reply.status = "200"
    THEN IF ~Truthy(reply.data) THEN Ret(NoCoordinates(location_name))
         ELSE Then(Get(reply.data, "results", None), LAMBDA results :
              IF ~Truthy(results) THEN Ret(NoCoordinates(location_name))
              ELSE Then(First(results), LAMBDA r0 :
                   Then(Index(r0, "geometry"), LAMBDA first_result :
                   Then(Index(first_result, "lat"), LAMBDA lat :
                   Then(Index(first_result, "lng"), LAMBDA lon :
                   Ret(JsonDumps(Dict(<< <<"latitude", lat>>,
                                         <<"longitude", lon>> >>))))))))
    ELSE Ret(Str(<<"Error: Failed to fetch coordinates. Status code: ", reply.status,
                   ". Details: ">> \o Fmt(reply.data)))

\* an except clause that turns whatever the body raised into the text made by Msg
Caught(b, Msg(_)) == IF b.exc # "none" THEN Ret(Msg(b.exc)) ELSE b

\* _get_location_coords from the reply on: the try block and its handler
GeoResume(location_name, reply) ==
    IF reply.fail THEN Ret(ApiCallError("ClientError"))
    ELSE Caught(GeoBody(location_name, reply), ApiCallError)

\* ------------------------------------------------------------ weather tool
\* lines 124-126: the except clause of the try block around json.loads
CoordsHandler(r, coords_result) ==
    IF r.exc \in {"JSONDecodeError", "KeyError"} THEN Ret(coords_result) ELSE r

\* _get_current_weather after its geocoding call returned coords_result
WeatherAfterGeoMut(coords_result) == Await
WeatherAfterGeo(coords_result) ==
    CoordsHandler(Then(JsonLoads(coords_result), LAMBDA coords :
                  Then(Index(coords, "latitude"), LAMBDA lat :
                  Then(Index(coords, "longitude"), LAMBDA lon : Await))),
                  coords_result)

\* the body of the try block of _get_current_weather for a reply with a status
WeatherBody(location, reply) ==
    IF reply.status = "200"
    THEN Then(Get(reply.data, "current_weather", Dict(<<>>)), LAMBDA current_weather :
         Then(Get(current_weather, "temperature", Str(<<"N/A">>)), LAMBDA temperature :
         Then(Get(current_weather, "windspeed", Str(<<"N/A">>)), LAMBDA windspeed :
         Ret(Str(<<"The current weather in ">> \o Fmt(location) \o <<" is ">>
                 \o Fmt(temperature) \o <<"°C with a wind speed of ">>
                 \o Fmt(windspeed) \o <<" km/h.">>)))))
    ELSE Ret(Str(<<"Error: Failed to fetch weather data. Status code: ", reply.status>>))

\* _get_current_weather from the weather reply on
WeatherResume(location, reply) ==
    IF reply.fail THEN Ret(ApiCallError("ClientError"))
    ELSE Caught(WeatherBody(location, reply), ApiCallError)

\* ------------------------------------------------------------ search tool
SearchKeyError ==
    Str(<<"Error: SerpApi key is not set. Please get a key from https://serpapi.com/users/sign_up and set the ",
          "SERPAPI_API_KEY",
          " environment variable or replace 'YOUR_SERPAPI_KEY' in the code.">>)

SearchKeyMissing(key) == key = "" \/ key = PLACEHOLDER_SERPAPI

\* organic_results[:5]
TopN == 5

\* str(n) for the entry numbers
IntStr(n) == <<"0", "1", "2", "3", "4", "5", "6", "7", "8", "9">>[n + 1]

\* the f-string of one entry; enumerate() counts i from 0
FormatEntry(i, result) ==
    Then(Get(result, "title", Str(<<"No Title">>)), LAMBDA title :
    Then(Get(result, "link", Str(<<"No Link">>)), LAMBDA link :
    Then(Get(result, "snippet", Str(<<"No Snippet">>)), LAMBDA snippet :
    Ret(Str(<<IntStr(i + 1), ". ">> \o Fmt(title) \o <<"\n   Link: ">>
            \o Fmt(link) \o <<"\n   Snippet: ">> \o Fmt(snippet))))))

\* organic_results[:n]
SliceMut(items, n) == items
Slice(items, n) == SubSeq(items, 1, IF Len(items) < n THEN Len(items) ELSE n)

\* lines 178-185: format the entries and serialise the list
FormatAll(top) ==
    IF \E i \in 1..Len(top) : FormatEntry(i - 1, top[i]).exc # "none"
    THEN Raise("AttributeError")
    ELSE Ret(JsonDumps(List([i \in 1..Len(top) |-> FormatEntry(i - 1, top[i]).v])))

\* the body of the try block of _get_search_results
SearchBody(search) ==
    Then(Get(search, "organic_results", List(<<>>)), LAMBDA organic_results :
    IF ~Truthy(organic_results) THEN Ret(Str(<<"No search results found.">>))
    ELSE IF organic_results.t # "list" THEN Raise("TypeError")
    ELSE FormatAll(Slice(organic_results.d, TopN)))

SerpApiError(e) == Str(<<"An error occurred during the SerpApi call: ", e>>)

\* _get_search_results after the key check: serpapi.search and the formatting
SearchCall(reply) ==
    IF reply.fail THEN Ret(SerpApiError("SerpApiError"))
    ELSE Caught(SearchBody(reply.data), SerpApiError)

\* _get_search_results(query)
GetSearchResults(key, reply) ==
    IF SearchKeyMissing(key) THEN Ret(SearchKeyError) ELSE SearchCall(reply)

\* ------------------------------------------------------------ reasoning client
ErrorDecision(msg) ==
    JsonDumps(Dict(<< <<"action", Str(<<"error">>)>>, <<"response", Str(<<msg>>)>> >>))

\* llm_output["candidates"][0]["content"]["parts"][0]
FirstPart(llm_output) ==
    Then(Index(llm_output, "candidates"), LAMBDA candidates :
    Then(First(candidates), LAMBDA c0 :
    Then(Index(c0, "content"), LAMBDA content :
    Then(Index(content, "parts"), LAMBDA parts : First(parts)))))

\* lines 236-246: the decision for the first part of the reply
DecisionOf(content) ==
    IF content.t \notin {"dict", "list", "str"} THEN Raise("TypeError")
    ELSE IF HasKey(content, "functionCall")
    THEN Then(Index(content, "functionCall"), LAMBDA fc :
         Then(Index(fc, "name"), LAMBDA name :
         Then(Index(fc, "args"), LAMBDA args :
         Ret(JsonDumps(Dict(<< <<"action", Str(<<"call_tool">>)>>,
                               <<"tool_name", name>>,
                               <<"tool_args", args>> >>))))))
    ELSE Then(Index(content, "text"), LAMBDA text :
         Ret(JsonDumps(Dict(<< <<"action", Str(<<"final_response">>)>>,
                               <<"response", text>> >>))))

\* the body of the try block of _get_llm_response_with_tools for a reply with a status
LlmBody(reply) ==
    IF reply.status = "200" THEN Then(FirstPart(reply.data), DecisionOf)
    ELSE Ret(ErrorDecision("API call failed."))

NetworkFailed(e) == ErrorDecision("Network request failed.")

\* _get_llm_response_with_tools from the reply on: the try block and its handler
LlmResumeMut(reply) == IF reply.fail THEN Raise("ClientError") ELSE LlmBody(reply)
LlmResume(reply) ==
    IF reply.fail THEN Ret(NetworkFailed("ClientError"))
    ELSE Caught(LlmBody(reply), NetworkFailed)

\* ------------------------------------------------------------ run
ToolTemplate(tool_result) ==
    Str(<<"I used my tool to get the information. Here's what I found: ">> \o Fmt(tool_result))

Apology == Str(<<"I'm sorry, I'm unable to process that request.">>)

\* line 280: the diagnostic for a tool that is not in the registry
UnknownToolMut(tool_name) == Str(<<"Error: The requested tool does not exist.">>)
UnknownTool(tool_name) ==
    Str(<<"Error: The requested tool '">> \o Fmt(tool_name) \o <<"' does not exist.">>)

\* line 283: the final response of a final_response decision
FinalResponseTextMut(llm_output) == Get(llm_output, "text", None).v
FinalResponseText(llm_output) == Get(llm_output, "response", None).v

\* line 286: the final response of any other decision
OtherActionTextMut(llm_output) == Get(llm_output, "response", None).v
OtherActionText(llm_output) == Apology

\* `tool_name in self.tools`
InRegistry(tool_name) ==
    tool_name.t = "str" /\ Len(tool_name.s) = 1 /\ tool_name.s[1] \in ToolNames

\* what run does with the decision text: finish with a text, call a tool, or fault
Final(text) == [k |-> "final", text |-> text, e |-> "none", tool |-> None, args |-> None]
Faulted(e) == [k |-> "fault", text |-> None, e |-> e, tool |-> None, args |-> None]
CallOf(tool, args) == [k |-> "call", text |-> None, e |-> "none", tool |-> tool, args |-> args]

\* lines 266-286: the branch on the decision
Branch(llm_output, action) ==
    IF action = Str(<<"call_tool">>)
    THEN LET Lookup(tool_name, tool_args) ==
                 IF tool_name.t \in {"dict", "list"} THEN Faulted("TypeError")
                 ELSE IF InRegistry(tool_name) THEN CallOf(tool_name.s[1], tool_args)
                 ELSE Final(UnknownTool(tool_name))
         IN Lookup(Get(llm_output, "tool_name", None).v,
                   Get(llm_output, "tool_args", Dict(<<>>)).v)
    ELSE IF action = Str(<<"final_response">>) THEN Final(FinalResponseText(llm_output))
    ELSE Final(OtherActionText(llm_output))

\* what a call that raised means for run
OrFault(r, F(_)) == IF r.exc # "none" THEN Faulted(r.exc) ELSE F(r.v)

\* run from the reasoning client's return to the dispatch
RunDecide(llm_output_str) ==
    OrFault(JsonLoads(llm_output_str), LAMBDA llm_output :
    OrFault(Get(llm_output, "action", None), LAMBDA action :
    Branch(llm_output, action)))

\* tool_func(**tool_args): the one parameter must be the one keyword given
Bind(tool_name, tool_args) ==
    IF tool_args.t # "dict" THEN Raise("TypeError")
    ELSE IF Len(tool_args.d) = 1 /\ tool_args.d[1][1] = ToolParam(tool_name)
         THEN Ret(tool_args.d[1][2])
    ELSE Raise("TypeError")

\* the except clauses of run: what the call of run yields for a fault e
RunHandlerMut(e) ==
    IF e = "JSONDecodeError" THEN Ret(Str(<<"I encountered an internal error. Please try again.">>))
    ELSE Raise(e)
RunHandler(e) ==
    IF e = "JSONDecodeError" THEN Ret(Str(<<"I encountered an internal error. Please try again.">>))
    ELSE Ret(Str(<<"I'm sorry, an unexpected error occurred.">>))

\* ------------------------------------------------------------ environment
Turns == 1..NumTurns

\* the utterances of main, in the order it passes them to run
Queries ==
    <<"What is the weather like in New York?", "What's the temperature in Paris, France?",
      "Can you search for the latest AI news?", "Hello, how are you?">>

Reply(fail, status, data) == [fail |-> fail, status |-> status, data |-> data]

\* the reasoning service's reply whose first part is `part`
Candidates(part) ==
    Dict(<< <<"candidates",
              List(<<Dict(<< <<"content",
                               Dict(<< <<"parts", List(<<part>>)>> >>)>> >>)>>)>> >>)

FunctionCall(name, args) ==
    Dict(<< <<"functionCall", Dict(<< <<"name", name>>, <<"args", Dict(args)>> >>)>> >>)

\* the calls the service may designate: a registry tool with its parameter, with
\* another tool's parameter, with no argument or with a number for the location,
\* a tool that is not in the registry, and no name at all; the arguments are
\* passed through unvalidated
DesignatedCalls ==
    { <<Str(<<"get_current_weather">>), << <<"location", Str(<<"Paris, France">>)>> >> >>,
      <<Str(<<"get_current_weather">>), << <<"location", Num("42")>> >> >>,
      <<Str(<<"get_current_weather">>), <<>> >>,
      <<Str(<<"get_location_coords">>), << <<"location_name", Str(<<"Paris, France">>)>> >> >>,
      <<Str(<<"get_location_coords">>), << <<"location", Str(<<"Paris, France">>)>> >> >>,
      <<Str(<<"get_search_results">>), << <<"query", Str(<<"latest AI news">>)>> >> >>,
      <<Str(<<"get_stock_price">>), << <<"query", Str(<<"latest AI news">>)>> >> >>,
      <<None, <<>> >> }

LlmTexts == {Str(<<"Hello! How can I help?">>), Str(<<>>)}

LlmReplies ==
    {Reply(TRUE, "0", None),
     Reply(FALSE, "500", Str(<<"Internal error">>)),
     Reply(FALSE, "200", Dict(<< <<"promptFeedback", Str(<<"BLOCKED">>)>> >>)),
     Reply(FALSE, "200", Dict(<< <<"candidates", List(<<>>)>> >>)),
     Reply(FALSE, "200", Candidates(Dict(<< <<"inlineData", Str(<<"x">>)>> >>)))}
    \cup {Reply(FALSE, "200", Candidates(Dict(<< <<"text", x>> >>))) : x \in LlmTexts}
    \cup {Reply(FALSE, "200", Candidates(FunctionCall(c[1], c[2]))) : c \in DesignatedCalls}

Geometry(lat, lng) ==
    Dict(<< <<"geometry", Dict(<< <<"lat", Num(lat)>>, <<"lng", Num(lng)>> >>)>> >>)

GeoReplies ==
    {Reply(TRUE, "0", None),
     Reply(FALSE, "403", Str(<<"invalid API key">>)),
     Reply(FALSE, "200", Dict(<< <<"results", List(<<>>)>> >>)),
     Reply(FALSE, "200", Dict(<< <<"results", List(<<Dict(<< <<"formatted", Str(<<"Paris">>)>> >>)>>)>> >>)),
     Reply(FALSE, "200", Dict(<< <<"results", List(<<Geometry("48.85", "2.35")>>)>> >>))}

WeatherReplies ==
    {Reply(TRUE, "0", None),
     Reply(FALSE, "500", None),
     Reply(FALSE, "200", Dict(<<>>)),
     Reply(FALSE, "200",
           Dict(<< <<"current_weather",
                     Dict(<< <<"temperature", Num("18.5")>>,
                             <<"windspeed", Num("12.3")>> >>)>> >>))}

\* one organic result with every field, and one with a title only
Titles == <<"t1", "t2", "t3", "t4", "t5", "t6", "t7", "t8", "t9">>
FullResult(i) ==
    Dict(<< <<"title", Str(<<Titles[i]>>)>>, <<"link", Str(<<"http://example.org">>)>>,
            <<"snippet", Str(<<"snippet">>)>> >>)
BareResult(i) == Dict(<< <<"title", Str(<<Titles[i]>>)>> >>)

Organic(items) == Reply(FALSE, "200", Dict(<< <<"organic_results", List(items)>> >>))

\* the replies of serpapi.search in a turn: lists of length 0, 1 and MaxResults
SearchReplies ==
    {Reply(TRUE, "0", None), Reply(FALSE, "200", Dict(<<>>))}
    \cup {Organic([i \in 1..n |-> FullResult(i)]) : n \in {0, 1, MaxResults}}

\* every organic_results list up to MaxResults, results in any order of kinds
RECURSIVE ListsOf(_)
ListsOf(n) ==
    IF n = 0 THEN {<<>>}
    ELSE LET shorter == ListsOf(n - 1) IN
         shorter \cup {Append(l, r) : l \in {x \in shorter : Len(x) = n - 1},
                                      r \in {FullResult(n), BareResult(MaxResults + 2 - n)}}
AllOrganic == {Organic(l) : l \in ListsOf(MaxResults)}

\* ------------------------------------------------------------ state
VARIABLES
    memory,             \* self.memory: the conversation log
    opencage_api_key,   \* self.opencage_api_key
    serpapi_key,        \* self.serpapi_key
    co                  \* the coroutine of each call of run, with its history

vars == <<memory, opencage_api_key, serpapi_key, co>>

NoCall == [exc |-> "nocall", v |-> None]

Idle ==
    [pc |-> "idle",            \* idle, llm_wait, geo_wait, wx_wait, done
     user_query |-> None,
     llm_reply |-> Reply(FALSE, "", None),  \* what the reasoning service replied
     llm_output_str |-> None,  \* what the reasoning client returned
     tool_name |-> "",         \* the registry tool run dispatched
     tool_arg |-> None,        \* its argument
     calls |-> <<>>,           \* tool functions entered, in order
     reqs |-> <<>>,            \* network requests sent, in order
     coords_result |-> NoCall, \* how the call of _get_location_coords ended
     tool_result |-> NoCall,   \* how the dispatched tool ended
     provided |-> None,        \* what the search provider replied
     fault |-> "none",         \* the exception run's handlers caught
     ret |-> NoCall]           \* how run ended

Entry(role, content, t) == [role |-> role, content |-> content, turn |-> t]

Init ==
    /\ memory = <<>>
    /\ opencage_api_key \in OpenCageKeys
    /\ serpapi_key \in SerpApiKeys
    /\ co = [t \in Turns |-> Idle]

\* ------------------------------------------------------------ steps of run
\* a step of turn t: its coroutine becomes c and `entries` are appended to the log
Step(t, c, entries) ==
    /\ co' = [co EXCEPT ![t] = c]
    /\ memory' = memory \o entries
    /\ UNCHANGED <<opencage_api_key, serpapi_key>>

\* lines 288-292: record the final response and return it
FinishEntriesMut(t, text) == <<>>
FinishEntries(t, text) == <<Entry("assistant", text, t)>>

Finish(t, c, text) ==
    Step(t, [c EXCEPT !.pc = "done", !.ret = Ret(text)], FinishEntries(t, text))

\* lines 294-299: a fault ends run in one of its handlers
Fault(t, c, e) ==
    Step(t, [c EXCEPT !.pc = "done", !.fault = e, !.ret = RunHandler(e)], <<>>)

\* line 278: the dispatched tool returned
ToolDone(t, c, result) ==
    Finish(t, [c EXCEPT !.tool_result = result], ToolTemplate(result.v))

\* a tool function stops at the await on its request
SuspendMut(t, c, pc, req) ==
    Step(t, [c EXCEPT !.pc = pc, !.reqs = @ \o <<req, req>>], <<>>)
Suspend(t, c, pc, req) ==
    Step(t, [c EXCEPT !.pc = pc, !.reqs = Append(@, req)], <<>>)

\* how a tool call that stopped or ended goes on in run
Continue(t, c, r, pc, req) ==
    IF r.exc = "await" THEN Suspend(t, c, pc, req)
    ELSE IF r.exc = "none" THEN ToolDone(t, c, r)
    ELSE Fault(t, [c EXCEPT !.tool_result = r], r.exc)

\* _get_current_weather from the return of its geocoding call on
WeatherContinue(t, c, coords) ==
    Continue(t, [c EXCEPT !.coords_result = coords], WeatherAfterGeo(coords.v),
             "wx_wait", "weather")

\* the call of _get_location_coords returned g, to run or to _get_current_weather
GeoReturned(t, c, g) ==
    IF g.exc = "none" /\ c.tool_name = "get_current_weather"
    THEN WeatherContinue(t, c, g)
    ELSE Continue(t, [c EXCEPT !.coords_result = g], g, "geo_wait", "geocode")

\* _get_location_coords entered, by run or by _get_current_weather
GeoStart(t, c) ==
    GeoReturned(t, [c EXCEPT !.calls = Append(@, "get_location_coords")],
                GeoEnter(opencage_api_key, c.tool_arg))

\* _get_search_results entered
SearchStart(t, c) ==
    IF SearchKeyMissing(serpapi_key)
    THEN ToolDone(t, c, GetSearchResults(serpapi_key, Reply(TRUE, "0", None)))
    ELSE \E sr \in SearchReplies :
             ToolDone(t, [c EXCEPT !.reqs = Append(@, "search"), !.provided = sr.data],
                      GetSearchResults(serpapi_key, sr))

\* the tool function is entered with its argument
Enter(t, c, tool_name) ==
    IF tool_name = "get_location_coords" THEN GeoStart(t, c)
    ELSE IF tool_name = "get_current_weather" THEN
         GeoStart(t, [c EXCEPT !.calls = Append(@, tool_name)])
    ELSE SearchStart(t, [c EXCEPT !.calls = Append(@, tool_name)])

\* line 275: tool_func(**tool_args), up to the tool's first await or its return
Invoke(t, c, tool_name, arg) ==
    IF arg.exc # "none" THEN Fault(t, [c EXCEPT !.tool_name = tool_name], arg.exc)
    ELSE Enter(t, [c EXCEPT !.tool_name = tool_name, !.tool_arg = arg.v], tool_name)

\* lines 264-292: run goes on with the decision
Dispatch(t, c, plan) ==
    IF plan.k = "final" THEN Finish(t, c, plan.text)
    ELSE IF plan.k = "fault" THEN Fault(t, c, plan.e)
    ELSE Invoke(t, c, plan.tool, Bind(plan.tool, plan.args))

\* line 263: the reasoning client returned d, or raised
Decided(t, r, d) ==
    IF d.exc # "none" THEN Fault(t, [co[t] EXCEPT !.llm_reply = r], d.exc)
    ELSE Dispatch(t, [co[t] EXCEPT !.llm_reply = r, !.llm_output_str = d.v], RunDecide(d.v))

\* lines 260-263: record the utterance and send the reasoning request
Begin(t) ==
    /\ co[t].pc = "idle"
    /\ \A u \in Turns : u < t => co[u].pc # "idle"
    /\ LET q == Str(<<Queries[((t - 1) % Len(Queries)) + 1]>>) IN
          Step(t, [co[t] EXCEPT !.pc = "llm_wait", !.user_query = q, !.reqs = <<"llm">>],
               <<Entry("user", q, t)>>)

\* run is called once the previous call has returned (main awaits each run)
Start(t) ==
    /\ \A u \in Turns : co[u].pc \in {"idle", "done"}
    /\ Begin(t)

\* run is called while other calls are suspended at their awaits
StartConcurrent(t) ==
    /\ \E u \in Turns : co[u].pc \notin {"idle", "done"}
    /\ Begin(t)

\* the reasoning service's reply arrives
LlmReply(t) ==
    /\ co[t].pc = "llm_wait"
    /\ \E r \in LlmReplies : Decided(t, r, LlmResume(r))

\* the geocoding reply arrives
GeoReply(t) ==
    /\ co[t].pc = "geo_wait"
    /\ \E r \in GeoReplies : GeoReturned(t, co[t], GeoResume(co[t].tool_arg, r))

\* the weather provider's reply arrives
WeatherReply(t) ==
    /\ co[t].pc = "wx_wait"
    /\ \E r \in WeatherReplies :
          ToolDone(t, co[t], WeatherResume(co[t].tool_arg, r))

Next ==
    \E t \in Turns : Start(t) \/ LlmReply(t) \/ GeoReply(t) \/ WeatherReply(t)

Spec == Init /\ [][Next]_vars

NextConcurrent ==
    \E t \in Turns :
        Start(t) \/ StartConcurrent(t) \/ LlmReply(t) \/ GeoReply(t) \/ WeatherReply(t)

SpecConcurrent == Init /\ [][NextConcurrent]_vars

\* _get_search_results called on its own, for every list the provider may return
CallSearch(t) ==
    /\ \A u \in Turns : co[u].pc = "idle"
    /\ \E sr \in AllOrganic :
          LET c == [co[t] EXCEPT !.pc = "tool_done", !.tool_name = "get_search_results",
                                 !.calls = <<"get_search_results">>,
                                 !.tool_result = GetSearchResults(serpapi_key, sr)]
          IN IF SearchKeyMissing(serpapi_key) THEN Step(t, c, <<>>)
             ELSE Step(t, [c EXCEPT !.reqs = <<"search">>, !.provided = sr.data], <<>>)

NextSearch == \E t \in Turns : CallSearch(t)

SpecSearch == Init /\ [][NextSearch]_vars

\* ------------------------------------------------------------ properties
\* the str is not the empty string
NonEmptyStr(v) == v.t = "str" /\ v.s # <<>>

\* the str contains the piece p
Contains(v, p) == v.t = "str" /\ \E i \in 1..Len(v.s) : v.s[i] = p

\* the log entries of turn t, in log order
Mine(t) == SelectSeq(memory, LAMBDA e : e.turn = t)

Count(seq, x) == Cardinality({i \in 1..Len(seq) : seq[i] = x})

Done(t) == co[t].pc = "done"

\* the reasoning client has returned in turn t
Returned(t) == co[t].pc \notin {"idle", "llm_wait"}

\* the decision of turn t as run reads it, and its fields
DecisionIn(t) == JsonLoads(co[t].llm_output_str).v
ActionIn(t) == Get(DecisionIn(t), "action", None).v
ToolNameIn(t) == Get(DecisionIn(t), "tool_name", None).v
ResponseIn(t) == Get(DecisionIn(t), "response", None).v

UserEntry(t) == Entry("user", co[t].user_query, t)
AssistantEntry(t, text) == Entry("assistant", text, t)

\* C1: every call of run returns a non-empty string and appends exactly two
\* entries to the log, the user entry with the utterance and then the
\* assistant entry with the returned response, whatever the reasoning service
\* and the tools do (a tool call that raises included).
C1_RunAppendsUserThenAssistant ==
    \A t \in Turns :
        Done(t) =>
            /\ co[t].ret.exc = "none"
            /\ NonEmptyStr(co[t].ret.v)
            /\ Mine(t) = <<UserEntry(t), AssistantEntry(t, co[t].ret.v)>>

\* C2: a fault raised after the user entry is recorded never leaves run: run
\* returns a fixed fallback apology string instead.
C2_FaultsBecomeApology ==
    \A t \in Turns :
        Done(t) =>
            /\ co[t].ret.exc = "none"
            /\ co[t].fault # "none" =>
                   co[t].ret.v =
                       IF co[t].fault = "JSONDecodeError"
                       THEN Str(<<"I encountered an internal error. Please try again.">>)
                       ELSE Str(<<"I'm sorry, an unexpected error occurred.">>)

\* a tool raised (quote() on a location that is no string) and run returned
C2_Witness ==
    \E t \in Turns :
        /\ Done(t)
        /\ co[t].fault = "TypeError"
        /\ co[t].calls = <<"get_current_weather", "get_location_coords">>
        /\ co[t].tool_result.exc = "TypeError"
        /\ Mine(t) = <<UserEntry(t)>>

\* the decision of turn t calls a tool whose name is no key of the registry
Unregistered(t) ==
    /\ Returned(t)
    /\ ActionIn(t) = Str(<<"call_tool">>)
    /\ ToolNameIn(t).t = "str"
    /\ Len(ToolNameIn(t).s) = 1
    /\ ToolNameIn(t).s[1] \notin ToolNames

\* C3: a call_tool decision naming a tool outside the registry invokes no tool
\* and sends no tool request; the turn ends normally and its final response is
\* the fixed diagnostic containing that name.
C3_UnknownToolDiagnosed ==
    \A t \in Turns :
        Unregistered(t) =>
            /\ Done(t)
            /\ co[t].fault = "none"
            /\ co[t].calls = <<>>
            /\ co[t].reqs = <<"llm">>
            /\ co[t].ret = Ret(Str(<<"Error: The requested tool '", ToolNameIn(t).s[1],
                                     "' does not exist.">>))
            /\ Contains(co[t].ret.v, ToolNameIn(t).s[1])
            /\ Mine(t) = <<UserEntry(t), AssistantEntry(t, co[t].ret.v)>>

C3_Witness ==
    \E t \in Turns :
        /\ Unregistered(t)
        /\ ToolNameIn(t) = Str(<<"get_stock_price">>)
        /\ Contains(co[t].ret.v, "get_stock_price")

\* the weather tool was entered in turn t
WeatherTurn(t) == "get_current_weather" \in {co[t].calls[i] : i \in 1..Len(co[t].calls)}

\* the first pieces of the error strings of _get_location_coords
GeoErrorPrefixes ==
    {"Error: OpenCage API key is not set. Please get a free key from https://opencagedata.com/pricing and set the ",
     "Error: No coordinates found for location '",
     "Error: Failed to fetch coordinates. Status code: ",
     "An error occurred during the API call: "}

GeoFailed(r) == r.exc = "none" /\ r.v.t = "str" /\ r.v.s # <<>> /\ r.v.s[1] \in GeoErrorPrefixes

GeoSucceeded(r) ==
    /\ r.exc = "none"
    /\ \E lat, lng \in NumberLiterals :
           r.v = Str(<<"{", "\"", "latitude", "\"", ":", lat, ",",
                       "\"", "longitude", "\"", ":", lng, "}">>)

\* C4: one invocation of the weather tool makes exactly one geocoding call; it
\* sends a weather request, exactly one, only after that call succeeded; when
\* geocoding fails it returns the geocoding error string unchanged and sends
\* no weather request.
C4_WeatherAfterGeocoding ==
    \A t \in Turns :
        WeatherTurn(t) =>
            /\ Count(co[t].calls, "get_location_coords") = 1
            /\ Count(co[t].reqs, "geocode") <= 1
            /\ Count(co[t].reqs, "weather") <= 1
            /\ co[t].coords_result.exc = "none" =>
                   GeoFailed(co[t].coords_result) \/ GeoSucceeded(co[t].coords_result)
            /\ Count(co[t].reqs, "weather") = 1 =>
                   /\ GeoSucceeded(co[t].coords_result)
                   /\ co[t].reqs = <<"llm", "geocode", "weather">>
            /\ GeoSucceeded(co[t].coords_result) => Count(co[t].reqs, "weather") = 1
            /\ GeoFailed(co[t].coords_result) =>
                   /\ Done(t)
                   /\ co[t].tool_result = co[t].coords_result
                   /\ Count(co[t].reqs, "weather") = 0

\* the geocoding request of a weather call found no coordinates
C4_Witness ==
    \E t \in Turns :
        /\ WeatherTurn(t)
        /\ Done(t)
        /\ co[t].reqs = <<"llm", "geocode">>
        /\ co[t].coords_result.v.s[1] = "Error: No coordinates found for location '"
        /\ co[t].tool_result = co[t].coords_result

OpenCageAbsent == opencage_api_key \in {"", "YOUR_OPENCAGE_API_KEY"}
SerpApiAbsent == serpapi_key \in {"", "YOUR_SERPAPI_KEY"}

Entered(t, name) == name \in {co[t].calls[i] : i \in 1..Len(co[t].calls)}

\* C5: with its credential absent (empty, or the placeholder an unset variable
\* leaves) a tool returns an error string containing the credential's name and
\* sends no request: the geocoding tool and the weather tool for
\* OPENCAGE_API_KEY, the search tool for SERPAPI_API_KEY.
C5_MissingCredentialNamed ==
    \A t \in Turns :
        /\ Entered(t, "get_location_coords") /\ OpenCageAbsent =>
               /\ co[t].coords_result.exc = "none"
               /\ Contains(co[t].coords_result.v, "OPENCAGE_API_KEY")
               /\ co[t].reqs = <<"llm">>
        /\ Entered(t, "get_current_weather") /\ OpenCageAbsent =>
               /\ co[t].tool_result.exc = "none"
               /\ Contains(co[t].tool_result.v, "OPENCAGE_API_KEY")
               /\ co[t].reqs = <<"llm">>
        /\ Entered(t, "get_search_results") /\ SerpApiAbsent =>
               /\ co[t].tool_result.exc = "none"
               /\ Contains(co[t].tool_result.v, "SERPAPI_API_KEY")
               /\ co[t].reqs = <<"llm">>

\* the weather tool ran with an empty geocoding key
C5_Witness ==
    \E t \in Turns :
        /\ opencage_api_key = ""
        /\ Entered(t, "get_current_weather")
        /\ Done(t)
        /\ Contains(co[t].ret.v, "OPENCAGE_API_KEY")

\* C6: a final_response decision with text T makes run return exactly T and
\* record T as the assistant entry, with no tool invoked and no tool request.
C6_FinalResponseVerbatim ==
    \A t \in Turns :
        Returned(t) /\ ActionIn(t) = Str(<<"final_response">>) =>
            /\ Done(t)
            /\ co[t].ret = Ret(ResponseIn(t))
            /\ Mine(t) = <<UserEntry(t), AssistantEntry(t, ResponseIn(t))>>
            /\ co[t].calls = <<>>
            /\ co[t].reqs = <<"llm">>

C6_Witness ==
    \E t \in Turns :
        /\ Done(t)
        /\ ActionIn(t) = Str(<<"final_response">>)
        /\ co[t].ret = Ret(Str(<<"Hello! How can I help?">>))

\* the reply has one of the two forms the client expects
ExpectedForm(data) ==
    /\ FirstPart(data).exc = "none"
    /\ HasKey(FirstPart(data).v, "functionCall") \/ HasKey(FirstPart(data).v, "text")

\* the reasoning-service call failed: transport, status, or shape
LlmFailed(r) == r.fail \/ r.status # "200" \/ ~ExpectedForm(r.data)

\* C7: when the reasoning-service call fails, run returns the fixed fallback
\* apology, invokes no tool, and the log gains the user and the assistant entry.
C7_ReasoningFailureApology ==
    \A t \in Turns :
        Done(t) /\ LlmFailed(co[t].llm_reply) =>
            /\ co[t].ret = Ret(Str(<<"I'm sorry, I'm unable to process that request.">>))
            /\ co[t].calls = <<>>
            /\ co[t].reqs = <<"llm">>
            /\ Mine(t) = <<UserEntry(t), AssistantEntry(t, co[t].ret.v)>>

\* a turn whose reasoning request failed in transport
C7_Witness ==
    \E t \in Turns :
        /\ Done(t)
        /\ co[t].llm_reply.fail
        /\ Len(Mine(t)) = 2

\* C8: with several turns running concurrently, each turn's user entry is
\* immediately followed in the log by the same turn's assistant entry.
C8_PairsAdjacent ==
    \A i, j \in 1..Len(memory) :
        /\ i < j
        /\ memory[i].turn = memory[j].turn
        /\ memory[i].role = "user"
        /\ memory[j].role = "assistant"
        => j = i + 1

\* the organic results the provider returned in turn t
ProvidedIn(t) == Get(co[t].provided, "organic_results", List(<<>>)).v.d

\* the entries of the search tool's result, a JSON list of strings
EntriesIn(t) == JsonLoads(co[t].tool_result.v).v

Min(a, b) == IF a < b THEN a ELSE b

\* C9: for every list of organic results, the search tool's result holds the
\* first min(5, n) results in provider order, numbered from 1, and never more
\* than 5; an empty list gives 'No search results found.'.
C9_SearchTopFive ==
    \A t \in Turns :
        co[t].pc = "tool_done" /\ co[t].reqs = <<"search">> =>
            IF ProvidedIn(t) = <<>>
            THEN co[t].tool_result = Ret(Str(<<"No search results found.">>))
            ELSE /\ co[t].tool_result.exc = "none"
                 /\ EntriesIn(t).t = "list"
                 /\ Len(EntriesIn(t).d) = Min(5, Len(ProvidedIn(t)))
                 /\ Len(EntriesIn(t).d) <= 5
                 /\ \A i \in 1..Len(EntriesIn(t).d) :
                        /\ EntriesIn(t).d[i].s[1] = IntStr(i)
                        /\ EntriesIn(t).d[i].s[3] = Get(ProvidedIn(t)[i], "title", None).v.s[1]

\* the provider returned more than five results
C9_Witness ==
    \E t \in Turns :
        /\ co[t].pc = "tool_done"
        /\ Len(ProvidedIn(t)) = MaxResults
        /\ Len(EntriesIn(t).d) = 5

\* the decision of turn t has the fields of its action
WellFormed(t) ==
    /\ co[t].llm_output_str.t = "str"
    /\ JsonLoads(co[t].llm_output_str).exc = "none"
    /\ DecisionIn(t).t = "dict"
    /\ \/ ActionIn(t) = Str(<<"call_tool">>)
          /\ HasKey(DecisionIn(t), "tool_name") /\ HasKey(DecisionIn(t), "tool_args")
       \/ ActionIn(t) = Str(<<"final_response">>) /\ HasKey(DecisionIn(t), "response")
       \/ ActionIn(t) = Str(<<"error">>) /\ HasKey(DecisionIn(t), "response")

\* C10: the reasoning client sends exactly one request per turn and returns
\* one well-formed decision (call_tool, final_response or error), the error
\* decision whenever the call fails; no exception leaves the client.
C10_OneRequestOneDecision ==
    \A t \in Turns :
        /\ co[t].pc # "idle" => Count(co[t].reqs, "llm") = 1
        /\ Returned(t) =>
               /\ WellFormed(t)
               /\ LlmFailed(co[t].llm_reply) => ActionIn(t) = Str(<<"error">>)

\* a reply of unexpected shape became the error decision
C10_Witness ==
    \E t \in Turns :
        /\ Returned(t)
        /\ ~co[t].llm_reply.fail
        /\ co[t].llm_reply.status = "200"
        /\ ~ExpectedForm(co[t].llm_reply.data)
        /\ ActionIn(t) = Str(<<"error">>)

\* the request chains a turn may have sent
Chains ==
    {<<"llm">>, <<"llm", "geocode">>, <<"llm", "geocode", "weather">>, <<"llm", "search">>}

\* the request turn t awaits a reply to, if any: the last one it sent
Awaited(t) ==
    CASE co[t].pc = "llm_wait" -> <<"llm">>
      [] co[t].pc = "geo_wait" -> <<"geocode">>
      [] co[t].pc = "wx_wait" -> <<"weather">>
      [] OTHER -> <<>>

\* the requests of turn t whose reply has arrived
Completed(t) == SubSeq(co[t].reqs, 1, Len(co[t].reqs) - Len(Awaited(t)))

\* C11: the requests of one turn form one sequential chain of at most three:
\* the reasoning request first, at most one registry tool dispatched and only
\* after the reasoning reply, a weather request only after the turn's
\* geocoding request completed, and never two requests in flight at once.
C11_SequentialChain ==
    \A t \in Turns :
        /\ co[t].pc = "idle" => co[t].reqs = <<>> /\ co[t].calls = <<>>
        /\ co[t].pc # "idle" =>
               /\ co[t].reqs \in Chains
               /\ Len(co[t].reqs) <= 3
               /\ co[t].reqs[1] = "llm"
               /\ Completed(t) \o Awaited(t) = co[t].reqs
               /\ Count(co[t].reqs, "weather") = 1 =>
                      /\ Count(Completed(t), "geocode") = 1
                      /\ GeoSucceeded(co[t].coords_result)
        /\ co[t].calls # <<>> =>
               /\ Count(Completed(t), "llm") = 1
               /\ ActionIn(t) = Str(<<"call_tool">>)
               /\ co[t].calls[1] = co[t].tool_name
               /\ co[t].tool_name \in ToolNames
               /\ co[t].calls \in {<<"get_current_weather", "get_location_coords">>,
                                   <<"get_location_coords">>, <<"get_search_results">>}
        /\ Len(co[t].reqs) > 1 => co[t].calls # <<>>

\* a turn that made all three round trips and awaits the weather reply
C11_Witness ==
    \E t \in Turns :
        /\ co[t].pc = "wx_wait"
        /\ co[t].reqs = <<"llm", "geocode", "weather">>
        /\ Completed(t) = <<"llm", "geocode">>
        /\ co[t].calls = <<"get_current_weather", "get_location_coords">>
====
